---- MODULE Spec2Model ----
(***************************************************************************)
(* A model of the fractal renderer of src/nebula.js (class                 *)
(* FractalGenerator): the escape-time functions, the per-pixel bodies of   *)
(* the passes and render()'s pipeline over the pixel grid.                 *)
(*                                                                         *)
(* Numbers.  JavaScript numbers are IEEE doubles.  Coordinates of the      *)
(* complex plane are modelled as "floats": a record that is either a       *)
(* finite fixed-point number (v counts units of 1/FS), an infinity with a  *)
(* sign, or NaN, with the IEEE rules for the special values.  Channel      *)
(* values, alphas and noise samples are fixed-point integers in units of   *)
(* 1/CS.  Finite arithmetic rounds to the nearest unit instead of to the   *)
(* nearest double.                                                         *)
(***************************************************************************)
EXTENDS Integers, Sequences, FiniteSets, TLC

VARIABLES esc, fogst, pix, bl, cfg, pc, cur, data, coloredAreas, starPositions,
          starList, starsPlotted, attempts, processed

vars == <<esc, fogst, pix, bl, cfg, pc, cur, data, coloredAreas, starPositions,
          starList, starsPlotted, attempts, processed>>

(***************************************************************************)
(* Floats                                                                  *)
(***************************************************************************)
\* units per 1.0 of a plane coordinate
FS == 10 * 1000

Fin(v) == [k |-> "fin", v |-> v]
NaN == [k |-> "nan", v |-> 0]
PInf == [k |-> "inf", v |-> 1]
NInf == [k |-> "inf", v |-> -1]

Abs(n) == IF n < 0 THEN -n ELSE n
Sign(n) == IF n < 0 THEN -1 ELSE IF n > 0 THEN 1 ELSE 0
Min(a, b) == IF a < b THEN a ELSE b
Max(a, b) == IF a > b THEN a ELSE b
\* a / b rounded to the nearest integer (b > 0)
RoundDiv(a, b) == (2 * a + b) \div (2 * b)

IsNaN(a) == a.k = "nan"
IsFinite(a) == a.k = "fin"
Inf(s) == IF s < 0 THEN NInf ELSE PInf

\* a + b
FAdd(a, b) ==
  IF IsNaN(a) \/ IsNaN(b) THEN NaN
  ELSE IF a.k = "inf" /\ b.k = "inf" THEN (IF a.v = b.v THEN a ELSE NaN)
  ELSE IF a.k = "inf" THEN a
  ELSE IF b.k = "inf" THEN b
  ELSE Fin(a.v + b.v)

FNeg(a) == IF IsFinite(a) THEN Fin(-a.v) ELSE IF IsNaN(a) THEN NaN ELSE Inf(-a.v)

\* a - b
FSub(a, b) == FAdd(a, FNeg(b))

\* a * b
FMul(a, b) ==
  IF IsNaN(a) \/ IsNaN(b) THEN NaN
  ELSE IF a.k = "inf" \/ b.k = "inf"
       THEN (IF Sign(a.v) * Sign(b.v) = 0 THEN NaN ELSE Inf(Sign(a.v) * Sign(b.v)))
  ELSE Fin(RoundDiv(a.v * b.v, FS))

\* n / d for an integer numerator n and an integer denominator d >= 0
FDivInt(n, d) ==
  IF d = 0 THEN (IF n = 0 THEN NaN ELSE Inf(n))
  ELSE Fin(Sign(n) * RoundDiv(Abs(n) * FS, d))

\* a < b written as "not a >= b": true as soon as one side is NaN
FLtByNotGe(a, b) ==
  IF IsNaN(a) \/ IsNaN(b) THEN TRUE
  ELSE IF a.k = "inf" THEN a.v < 0 /\ ~(b.k = "inf" /\ b.v < 0)
  ELSE IF b.k = "inf" THEN b.v > 0
  ELSE a.v < b.v

\* a < b; false as soon as one side is NaN
FLt(a, b) ==
  IF IsNaN(a) \/ IsNaN(b) THEN FALSE
  ELSE IF a.k = "inf" THEN a.v < 0 /\ ~(b.k = "inf" /\ b.v < 0)
  ELSE IF b.k = "inf" THEN b.v > 0
  ELSE a.v < b.v

\* pi and 2 pi in units of 1/FS
PiFS == (31416 * FS) \div 10000
TwoPiFS == 2 * PiFS

\* sin on [0, pi], argument in units of 1/FS, result in units of 1/1000
\* (Bhaskara's rational approximation of Math.sin, error below 0.002)
SinHalfTurn(t) ==
  LET xm == t \div 10
      p == xm * (3142 - xm)
      den == (49348022 - 4 * p) \div 1000
  IN Min(1000, Max(0, (16 * p) \div den))

\* Math.sin(a) of a finite a, result in units of 1/1000
SinMilli(a) ==
  LET t == a.v % TwoPiFS
  IN IF t < PiFS THEN SinHalfTurn(t) ELSE -SinHalfTurn(t - PiFS)

\* c * Math.sin(k * a) for the constants c = cm/1000 and k; NaN when a is
\* NaN or infinite
FScaledSin(cm, k, a) ==
  IF ~IsFinite(a) THEN NaN
  ELSE Fin(Sign(SinMilli(Fin(k * a.v))) *
           RoundDiv(cm * Abs(SinMilli(Fin(k * a.v))) * (FS \div 1000), 1000))

(***************************************************************************)
(* EscapeTimeEngine: mandelbrot and julia                                  *)
(***************************************************************************)
\* zx * zx + zy * zy < 4
Bounded(zx, zy) ==
  IF IsFinite(zx) /\ IsFinite(zy)
  THEN /\ Abs(zx.v) < 2 * FS
       /\ Abs(zy.v) < 2 * FS
       /\ zx.v * zx.v + zy.v * zy.v < 4 * FS * FS
  ELSE FLt(FAdd(FMul(zx, zx), FMul(zy, zy)), Fin(4 * FS))

\* the loop condition shared by mandelbrot and julia
\* the loop condition with the cap compared inclusively
LoopCondInclusive(zx, zy, iter, cap) == Bounded(zx, zy) /\ iter <= cap

LoopCond(zx, zy, iter, cap) == Bounded(zx, zy) /\ iter < cap

\* one pass through the body of mandelbrot's loop
MandelStep(zx, zy, x, y) ==
  LET xtemp == FAdd(FSub(FMul(zx, zx), FMul(zy, zy)), x)
      zy1 == FAdd(FMul(Fin(2 * FS), FMul(zx, zy)), y)
      zx2 == FAdd(xtemp, FScaledSin(5, 3, zy1))
      zy2 == FAdd(zy1, FScaledSin(5, 2, zx2))
  IN [zx |-> zx2, zy |-> zy2]

\* one pass through the body of julia's loop
JuliaStep(zx, zy, cx, cy) ==
  LET xtemp == FAdd(FSub(FMul(zx, zx), FMul(zy, zy)), cx)
      zy1 == FAdd(FMul(Fin(2 * FS), FMul(zx, zy)), cy)
  IN [zx |-> xtemp, zy |-> zy1]

\* mandelbrot started at the input coordinate instead of at (0,0)
MandelStartAtC(x, y) == [zx |-> x, zy |-> y]

\* the starting point z0 of each recurrence
MandelStart(x, y) == [zx |-> Fin(0), zy |-> Fin(0)]
JuliaStart(x, y) == [zx |-> x, zy |-> y]

RECURSIVE MandelLoop(_, _, _, _, _, _)
MandelLoop(zx, zy, iter, x, y, cap) ==
  IF LoopCond(zx, zy, iter, cap)
  THEN LET s == MandelStep(zx, zy, x, y)
       IN MandelLoop(s.zx, s.zy, iter + 1, x, y, cap)
  ELSE iter

mandelbrot(x, y, cap) ==
  LET z0 == MandelStart(x, y) IN MandelLoop(z0.zx, z0.zy, 0, x, y, cap)

RECURSIVE JuliaLoop(_, _, _, _, _, _)
JuliaLoop(zx, zy, iter, cx, cy, cap) ==
  IF LoopCond(zx, zy, iter, cap)
  THEN LET s == JuliaStep(zx, zy, cx, cy)
       IN JuliaLoop(s.zx, s.zy, iter + 1, cx, cy, cap)
  ELSE iter

julia(x, y, cx, cy, cap) ==
  LET z0 == JuliaStart(x, y) IN JuliaLoop(z0.zx, z0.zy, 0, cx, cy, cap)

\* the mapping without the shift of the origin to the centre of the canvas
ScreenToPlaneNoCentre(p, size, zoom, offset) ==
  FAdd(FDivInt(p, zoom), offset)

\* x = (px - width / 2) / zoom + offset, for an integer zoom >= 0
ScreenToPlane(p, size, zoom, offset) ==
  FAdd(FDivInt(2 * p - size, 2 * zoom), offset)

\* the iteration count of a plane coordinate under the render type
IterAt(type, x, y, cx, cy, cap) ==
  IF type = "julia" THEN julia(x, y, cx, cy, cap) ELSE mandelbrot(x, y, cap)

\* iter === this.maxIter: the coordinate is a star candidate
IsStarCandidate(iter, cap) == iter = cap

(***************************************************************************)
(* drawFractal: the classification of a pixel by its iteration count       *)
(***************************************************************************)
\* units per 1.0 of a channel value, an alpha, a noise sample, a mask
CS == 10 * 100

\* The sign of fade - 0.01 for fade = 1 - Math.pow(iter / cap, 1.5), decided
\* exactly: fade > 0.01 iff (iter/cap)^3 < 0.9801 iff
\* 10000 * (cap^3 - iter^3) > 199 * cap^3.  Exact for 0 <= iter <= cap <= 200
\* (beyond that the products leave the integer range of the checker).
FadeCmp(iter, cap) ==
  LET c == cap * cap * cap
      a == iter * iter * iter
  IN IF c - a > c \div 50 + 1 THEN 1
     ELSE Sign(10000 * (c - a) - 199 * c)

\* const isColored = iter < this.maxIter && fade > 0.01
IsColored(iter, cap) == iter < cap /\ FadeCmp(iter, cap) > 0

\* only the pixels that reached the cap are skipped
SkipsOnlyAtCap(iter, cap) == iter = cap

\* if (fade < 0.01) continue
SkipsColoring(iter, cap) == FadeCmp(iter, cap) < 0

\* the value of esc, pix and fogst where they are not in use
EscIdle == [pc |-> "idle"]
PixIdle == [pc |-> "idle"]
FogIdle == [pc |-> "idle"]
BlendIdle == [pc |-> "idle"]

(***************************************************************************)
(* Compositor, ColorConverter, NoiseField                                  *)
(***************************************************************************)
\* the largest r with r * r <= n, searched between lo and hi
RECURSIVE SqrtBetween(_, _, _)
SqrtBetween(n, lo, hi) ==
  IF lo >= hi THEN lo
  ELSE LET mid == (lo + hi + 1) \div 2
       IN IF mid * mid <= n THEN SqrtBetween(n, mid, hi)
          ELSE SqrtBetween(n, lo, mid - 1)

\* floor(Math.sqrt(n)) for 0 <= n < 2^30
ISqrt(n) == SqrtBetween(n, 0, 32767)

\* bg * (1 - alpha) + fg * alpha; bg, fg and alpha in units of 1/CS
blend(bg, fg, alpha) == RoundDiv(bg * (CS - alpha) + fg * alpha, CS)

\* a store that rounds like the Uint8ClampedArray but does not clamp
ToUint8Unclamped(v) ==
  LET q == v \div CS
      r == v % CS
  IN IF 2 * r < CS THEN q
     ELSE IF 2 * r > CS THEN q + 1
     ELSE IF q % 2 = 0 THEN q ELSE q + 1

\* A store into the Uint8ClampedArray of the image data: v (in units of
\* 1/CS) is rounded to the nearest integer, ties to even, and clamped.
ToUint8Clamped(v) ==
  LET q == v \div CS
      r == v % CS
      n == IF 2 * r < CS THEN q
           ELSE IF 2 * r > CS THEN q + 1
           ELSE IF q % 2 = 0 THEN q ELSE q + 1
  IN Max(0, Min(255, n))

\* data[i] = this.blend(data[i], fg, alpha) for one channel value d
BlendStore(d, fg, alpha) == ToUint8Clamped(blend(d * CS, fg, alpha))

\* hue2rgb of hslToRgb; p, q, t in units of 1/CS
hue2rgb(p, q, t) ==
  LET t1 == IF t < 0 THEN t + CS ELSE t
      t2 == IF t1 > CS THEN t1 - CS ELSE t1
  IN IF 6 * t2 < CS THEN p + RoundDiv((q - p) * 6 * t2, CS)
     ELSE IF 2 * t2 < CS THEN q
     ELSE IF 3 * t2 < 2 * CS
          THEN p + RoundDiv((q - p) * (RoundDiv(2 * CS, 3) - t2) * 6, CS)
     ELSE p

\* hslToRgb(h, s, l): h in degrees, s and l in percent, all in units of 1/CS;
\* the result is <<r, g, b>> in whole channel values (Math.round)
hslToRgb(h, s, l) ==
  LET hu == RoundDiv(h, 360)
      su == RoundDiv(s, 100)
      lu == RoundDiv(l, 100)
      q == IF 2 * lu < CS THEN RoundDiv(lu * (CS + su), CS)
           ELSE lu + su - RoundDiv(lu * su, CS)
      p == 2 * lu - q
      third == RoundDiv(CS, 3)
      r == IF su = 0 THEN lu ELSE hue2rgb(p, q, hu + third)
      g == IF su = 0 THEN lu ELSE hue2rgb(p, q, hu)
      b == IF su = 0 THEN lu ELSE hue2rgb(p, q, hu - third)
  IN <<RoundDiv(r * 255, CS), RoundDiv(g * 255, CS), RoundDiv(b * 255, CS)>>

\* The noise field this.noise2D of the generator: the simplex-noise library
\* gives a deterministic function of the sampled coordinate with values in
\* [-1, 1], fixed by a seed at construction.  Coordinates are given in
\* units of 1/1000000, the value in units of 1/CS.
noise2D(seed, x, y) ==
  ((((seed * 3 + (x \div 100) + 2 * (y \div 100)) % 7) % 5) - 2) * (CS \div 2)

\* 2^n
RECURSIVE Pow2(_)
Pow2(n) == IF n = 0 THEN 1 ELSE 2 * Pow2(n - 1)

(***************************************************************************)
(* blend in the arithmetic of JavaScript numbers                           *)
(*                                                                         *)
(* A JavaScript number is an IEEE 754 double: every operation returns the  *)
(* exact result rounded to 53 significant bits, ties to even.  The values  *)
(* of blend on channel values and an alpha of 0 or of [1/8, 1] are         *)
(* multiples of 2^-56 below 2^9; such a value v is kept exactly, as the    *)
(* natural number v * 2^56 in three limbs of LimbBits bits, lowest first.  *)
(***************************************************************************)
LimbBits == 2 * 11
Limb == Pow2(LimbBits)

\* the limbs of the number a0 + a1 * Limb + a2 * Limb^2
BigNorm(a0, a1, a2) ==
  LET b1 == a1 + a0 \div Limb
  IN <<a0 % Limb, b1 % Limb, a2 + b1 \div Limb>>

\* the whole number n, in units of 2^-56
FromInt(n) == <<0, 0, n * Pow2(56 - 2 * LimbBits)>>

BigAdd(a, b) == BigNorm(a[1] + b[1], a[2] + b[2], a[3] + b[3])

\* a - b for a >= b
BigSub(a, b) ==
  LET d0 == a[1] - b[1]
      c0 == IF d0 < 0 THEN 1 ELSE 0
      d1 == a[2] - b[2] - c0
      c1 == IF d1 < 0 THEN 1 ELSE 0
  IN <<d0 + c0 * Limb, d1 + c1 * Limb, a[3] - b[3] - c1>>

\* a * n for a whole number n of 0..255
BigMulSmall(a, n) == BigNorm(a[1] * n, a[2] * n, a[3] * n)

\* quotient and remainder of a by a whole number d of 1..255
BigDivSmall(a, d) ==
  LET t1 == (a[3] % d) * Limb + a[2]
      t0 == (t1 % d) * Limb + a[1]
  IN [q |-> <<t0 \div d, t1 \div d, a[3] \div d>>, rem |-> t0 % d]

BigLess(a, b) ==
  \/ a[3] < b[3]
  \/ a[3] = b[3] /\ a[2] < b[2]
  \/ a[3] = b[3] /\ a[2] = b[2] /\ a[1] < b[1]

\* the number of significant bits
RECURSIVE BitLen(_)
BitLen(n) == IF n = 0 THEN 0 ELSE 1 + BitLen(n \div 2)

BigBitLen(a) ==
  IF a[3] > 0 THEN 2 * LimbBits + BitLen(a[3])
  ELSE IF a[2] > 0 THEN LimbBits + BitLen(a[2])
  ELSE BitLen(a[1])

\* The double nearest to the exact value a (plus a positive part below
\* 2^-56 when sticky is set): 53 significant bits, ties to even.
RoundToDouble(a, sticky) ==
  LET s == BigBitLen(a) - 53
  IN IF s <= 0 THEN a
     ELSE LET unit == Pow2(s)
              rem == a[1] % unit
              odd == (a[1] \div unit) % 2 = 1
              up == \/ 2 * rem > unit
                    \/ 2 * rem = unit /\ (sticky \/ odd)
          IN BigNorm(a[1] - rem + (IF up THEN unit ELSE 0), a[2], a[3])

\* the double of the decimal num / den, a literal such as 0.7 or a value
\* parseFloat returns, for num = 0 or 1/8 <= num / den <= 1
DoubleOf(num, den) ==
  LET dv == BigDivSmall(FromInt(num), den)
  IN RoundToDouble(dv.q, dv.rem # 0)

\* the weights of blend exchanged: bg * alpha + fg * (1 - alpha)
blendDoubleSwapped(bg, fg, alpha) ==
  RoundToDouble(
    BigAdd(RoundToDouble(BigMulSmall(alpha, bg), FALSE),
           RoundToDouble(BigMulSmall(RoundToDouble(BigSub(FromInt(1), alpha), FALSE),
                                     fg), FALSE)),
    FALSE)

\* return bg * (1 - alpha) + fg * alpha, on doubles: the difference, the two
\* products and the sum are rounded one after the other
blendDouble(bg, fg, alpha) ==
  RoundToDouble(
    BigAdd(RoundToDouble(BigMulSmall(RoundToDouble(BigSub(FromInt(1), alpha), FALSE),
                                     bg), FALSE),
           RoundToDouble(BigMulSmall(alpha, fg), FALSE)),
    FALSE)

\* the store of a double into the Uint8ClampedArray: the nearest whole
\* number, ties to even, at most 255
StoreDouble(a) ==
  LET one == Pow2(56 - 2 * LimbBits)
      q == a[3] \div one
      r == a[3] % one
      n == IF 2 * r < one THEN q
           ELSE IF 2 * r > one \/ a[2] > 0 \/ a[1] > 0 THEN q + 1
           ELSE IF q % 2 = 0 THEN q ELSE q + 1
  IN Min(255, n)

(***************************************************************************)
(* drawFractal: the body of the loop for one pixel                         *)
(***************************************************************************)
\* fogMod of drawFractal: three layers of noise, in units of 1/CS
RECURSIVE FogModSum(_, _, _, _)
FogModSum(seed, px, py, layer) ==
  IF layer = 3 THEN 0
  ELSE RoundDiv(RoundDiv(noise2D(seed, px * 300 * Pow2(layer),
                                 py * 300 * Pow2(layer)) + CS, 2), layer + 1)
       + FogModSum(seed, px, py, layer + 1)

FogMod(seed, px, py) == RoundDiv(FogModSum(seed, px, py, 0) * 1000, 1875)

\* mask = iter / this.maxIter, in units of 1/CS
MaskOf(iter, cap) == RoundDiv(iter * CS, cap)

\* fade = 1 - Math.pow(mask, 1.5), in units of 1/CS
FadeOf(iter, cap) ==
  LET m == MaskOf(iter, cap)
  IN CS - RoundDiv(m * ISqrt(m * CS), CS)

\* The colour of an escaped pixel: <<r, g, b>> of hslToRgb(hue, sat, light)
FractalColor(c, iter, fogMod) ==
  LET m == MaskOf(iter, c.maxIter)
      complementaryHue == (c.baseHue + 180) % 360
      hue == ((CS - m) * c.baseHue + m * complementaryHue) % (360 * CS)
      sat == Max(20 * CS, c.saturation * CS + m * 25)
      light == c.lightness * CS + m * 35 + fogMod * 10
  IN hslToRgb(hue, sat, light)

\* The body of drawFractal's loop for the pixel (px, py) whose iteration
\* count is iter and whose buffer entry is d = <<r, g, b, a>>: the mask
\* entry, whether the buffer entry was written, and the buffer entry after.
ColorPixel(c, iter, px, py, d) ==
  LET isColored == IsColored(iter, c.maxIter)
  IN IF SkipsColoring(iter, c.maxIter)
     THEN [colored |-> isColored, wrote |-> FALSE, d |-> d]
     ELSE
       LET m == MaskOf(iter, c.maxIter)
           fogMod == FogMod(c.seed, px, py)
           rgb == FractalColor(c, iter, fogMod)
           alpha == RoundDiv(7 * FadeOf(iter, c.maxIter), 10)
           d1 == [i \in 1..3 |-> BlendStore(d[i], rgb[i] * CS, alpha)]
           fogStrength == 200 * CS + fogMod * 55
           fogAlpha == RoundDiv((CS - m) * 35, 100)
           d2 == IF m > c.minNoise /\ m < c.maxNoise
                 THEN [i \in 1..3 |-> BlendStore(d1[i], fogStrength, fogAlpha)]
                 ELSE d1
       IN [colored |-> isColored, wrote |-> TRUE,
           d |-> <<d2[1], d2[2], d2[3], d[4]>>]

(***************************************************************************)
(* applyFogLayer and the final soft-fog loop of render: one pixel          *)
(***************************************************************************)
\* Math.sqrt((px - star.x) ** 2 + (py - star.y) ** 2) <= star.radius, the
\* radius in units of 1/CS
InStarDisk(star, px, py) ==
  ((px - star.x) * (px - star.x) + (py - star.y) * (py - star.y)) * CS * CS
     <= star.radius * star.radius

\* skipFog without the loop over the star list
SkipFogMaskOnly(stars, keep, colored, px, py) == keep /\ ~colored

\* skipFog with the mask tested whatever the flag
SkipFogFlagIgnored(stars, keep, colored, px, py) ==
  \/ \E k \in 1..Len(stars) : InStarDisk(stars[k], px, py)
  \/ ~colored

\* skipFog after the loop over the star list and the test of the mask
SkipFog(stars, keep, colored, px, py) ==
  \/ \E k \in 1..Len(stars) : InStarDisk(stars[k], px, py)
  \/ (keep /\ ~colored)

\* units per 1.0 of the layered noise sum of the fog overlay
FogScale == 256 * CS

\* noiseSum += sample * amplitude, with amplitude = 1 / Math.pow(2, layer)
FogAccumulate(noiseSum, sample, layer) ==
  noiseSum + (sample * (FogScale \div CS)) \div Pow2(layer)

\* const fogIntensity = (noiseSum + 1) / 2
FogIntensity(noiseSum) == (noiseSum + FogScale) \div 2

\* const alpha = fogIntensity * this.fogDensity, in units of 1/CS
FogAlpha(fogIntensity, fogDensity) == RoundDiv(fogIntensity * fogDensity, FogScale)

\* the layered noise sum of the pixel (px, py) from layer on
RECURSIVE FogNoiseSum(_, _, _, _, _)
FogNoiseSum(c, px, py, layer, noiseSum) ==
  IF layer >= c.fogLayerCount THEN noiseSum
  ELSE FogNoiseSum(c, px, py, layer + 1,
         FogAccumulate(noiseSum,
                       noise2D(c.seed, px * c.fogSize * Pow2(layer),
                               py * c.fogSize * Pow2(layer)),
                       layer))

\* The body of applyFogLayer's loop for a pixel that is not skipped
FogPixel(c, px, py, d) ==
  LET alpha == FogAlpha(FogIntensity(FogNoiseSum(c, px, py, 0, 0)), c.fogDensity)
      fogColor == <<Min(255, d[1] + 40), Min(255, d[2] + 40), Min(255, d[3] + 60)>>
  IN <<BlendStore(d[1], fogColor[1] * CS, alpha),
       BlendStore(d[2], fogColor[2] * CS, alpha),
       BlendStore(d[3], fogColor[3] * CS, alpha), d[4]>>

\* The body of render's final loop for a pixel that is not skipped
SoftFogPixel(c, px, py, d) ==
  LET noise == RoundDiv(noise2D(c.seed, px * 5000, py * 5000) + CS, 2)
      fogAmount == noise * 12
  IN <<ToUint8Clamped(Min(255 * CS, d[1] * CS + fogAmount)),
       ToUint8Clamped(Min(255 * CS, d[2] * CS + fogAmount)),
       ToUint8Clamped(Min(255 * CS, d[3] * CS + fogAmount)), d[4]>>

(***************************************************************************)
(* The layered noise sum of the fog overlay, one layer at a time           *)
(***************************************************************************)
\* the range the prompt accepts for fogLayerCount
MinFogLayers == 1
MaxFogLayers == 8
\* noise samples and fog densities the sum is built from
NoiseSamples == {-CS, -(CS \div 2), 0, CS \div 2, CS}
FogDensities == {100, 400, 800}

FogInit ==
  /\ \E n \in MinFogLayers..MaxFogLayers, dens \in FogDensities :
        fogst = [pc |-> "layers", fogLayerCount |-> n, fogDensity |-> dens,
                 layer |-> 0, noiseSum |-> 0, fogIntensity |-> 0, alpha |-> 0]
  /\ esc = EscIdle /\ pix = PixIdle /\ bl = BlendIdle
  /\ cfg = 0 /\ pc = "off" /\ cur = 0 /\ data = 0
  /\ coloredAreas = 0 /\ starPositions = 0 /\ starList = 0
  /\ starsPlotted = 0 /\ attempts = 0 /\ processed = 0

\* one pass through the loop over the layers, on a sample of the noise field
FogLayer ==
  /\ fogst.pc = "layers"
  /\ fogst.layer < fogst.fogLayerCount
  /\ \E sample \in NoiseSamples :
        fogst' = [fogst EXCEPT
                    !.noiseSum = FogAccumulate(fogst.noiseSum, sample, fogst.layer),
                    !.layer = fogst.layer + 1]
  /\ UNCHANGED <<bl, esc, pix, cfg, pc, cur, data, coloredAreas, starPositions,
                 starList, starsPlotted, attempts, processed>>

\* after the last layer: fogIntensity and the blend alpha
FogBlend ==
  /\ fogst.pc = "layers"
  /\ fogst.layer >= fogst.fogLayerCount
  /\ fogst' = [fogst EXCEPT
                 !.pc = "done",
                 !.fogIntensity = FogIntensity(fogst.noiseSum),
                 !.alpha = FogAlpha(FogIntensity(fogst.noiseSum), fogst.fogDensity)]
  /\ UNCHANGED <<bl, esc, pix, cfg, pc, cur, data, coloredAreas, starPositions,
                 starList, starsPlotted, attempts, processed>>

FogNext == FogLayer \/ FogBlend

FogSpec == FogInit /\ [][FogNext]_vars

(***************************************************************************)
(* blend called on drawn channel values and alphas                         *)
(***************************************************************************)
\* channel values and alphas (numerator, denominator) blend is called with
BlendChannels == {0, 3, 13, 128, 255}
BlendAlphas == {<<0, 1>>, <<1, 8>>, <<2, 10>>, <<3, 10>>, <<35, 100>>,
                <<1, 2>>, <<7, 10>>, <<1, 1>>}

BlendInit ==
  /\ bl = BlendIdle
  /\ esc = EscIdle /\ pix = PixIdle /\ fogst = FogIdle
  /\ cfg = 0 /\ pc = "off" /\ cur = 0 /\ data = 0
  /\ coloredAreas = 0 /\ starPositions = 0 /\ starList = 0
  /\ starsPlotted = 0 /\ attempts = 0 /\ processed = 0

\* a call this.blend(bg, fg, alpha)
BlendCall ==
  /\ bl.pc = "idle"
  /\ \E bg \in BlendChannels, fg \in BlendChannels, a \in BlendAlphas :
        bl' = [pc |-> "called", bg |-> bg, fg |-> fg,
               alpha |-> DoubleOf(a[1], a[2])]
  /\ UNCHANGED <<esc, pix, fogst, cfg, pc, cur, data, coloredAreas, starPositions,
                 starList, starsPlotted, attempts, processed>>

\* the return of the value
BlendReturn ==
  /\ bl.pc = "called"
  /\ bl' = [pc |-> "done", bg |-> bl.bg, fg |-> bl.fg, alpha |-> bl.alpha,
            result |-> blendDouble(bl.bg, bl.fg, bl.alpha)]
  /\ UNCHANGED <<esc, pix, fogst, cfg, pc, cur, data, coloredAreas, starPositions,
                 starList, starsPlotted, attempts, processed>>

BlendNext == BlendCall \/ BlendReturn

BlendSpec == BlendInit /\ [][BlendNext]_vars

(***************************************************************************)
(* The per-pixel bodies on drawn inputs                                    *)
(***************************************************************************)
\* the default Julia constant (-0.8, 0.156)
DefaultCx == Fin(-8000)
DefaultCy == Fin(1560)

\* iteration caps and buffer entries the pixel bodies are applied to
PixCaps == {1, 2, 3, 150, 200}
PixEntries == {<<0, 0, 10, 255>>, <<35, 35, 45, 255>>}
PixSeeds == {0, 1}

\* a configuration with the defaults of the prompts
DefaultConfig(type, cap, seed, keep) ==
  [type |-> type, maxIter |-> cap, zoom |-> 1,
   offsetX |-> Fin(-7500), offsetY |-> Fin(0),
   cx |-> DefaultCx, cy |-> DefaultCy,
   baseHue |-> 200, saturation |-> 70, lightness |-> 30,
   minNoise |-> 200, maxNoise |-> 800,
   fogDensity |-> 400, fogSize |-> 10000, fogLayerCount |-> 5,
   keepBlackAreasClear |-> keep, seed |-> seed]

PixInit ==
  /\ \E cap \in PixCaps, seed \in PixSeeds, d \in PixEntries :
       \E iter \in 0..cap :
          pix = [pc |-> "start", c |-> DefaultConfig("mandelbrot", cap, seed, TRUE),
                 iter |-> iter, before |-> d, after |-> d,
                 colored |-> FALSE, wrote |-> FALSE]
  /\ esc = EscIdle /\ bl = BlendIdle
  /\ fogst = FogIdle /\ cfg = 0 /\ pc = "off" /\ cur = 0 /\ data = 0
  /\ coloredAreas = 0 /\ starPositions = 0 /\ starList = 0
  /\ starsPlotted = 0 /\ attempts = 0 /\ processed = 0

\* the body of drawFractal's loop on the drawn pixel
PixColor ==
  /\ pix.pc = "start"
  /\ LET res == ColorPixel(pix.c, pix.iter, 1, 1, pix.before)
     IN pix' = [pix EXCEPT !.pc = "colored", !.after = res.d,
                           !.colored = res.colored, !.wrote = res.wrote]
  /\ UNCHANGED <<bl, esc, fogst, cfg, pc, cur, data, coloredAreas, starPositions,
                 starList, starsPlotted, attempts, processed>>

PixNext == PixColor

PixSpec == PixInit /\ [][PixNext]_vars

(***************************************************************************)
(* The escape-time functions, one loop step at a time                      *)
(***************************************************************************)
\* the canvas of the program
width == 800
height == 800

\* the inputs the escape-time runs are started on
EscTypes == {"mandelbrot", "julia"}
EscCaps == {1, 2, 100}
EscPixels == {0, 400, 700}
EscZooms == {0, 1, 300}
EscOffsets == {<<Fin(-7500), Fin(0)>>, <<Fin(0), Fin(0)>>}

EscStart(type, cap, px, py, zoom, off) ==
  LET x == ScreenToPlane(px, width, zoom, off[1])
      y == ScreenToPlane(py, height, zoom, off[2])
      z0 == IF type = "julia" THEN JuliaStart(x, y) ELSE MandelStart(x, y)
  IN [pc |-> "loop", type |-> type, cap |-> cap, px |-> px, py |-> py,
      zoom |-> zoom, offsetX |-> off[1], offsetY |-> off[2],
      x |-> x, y |-> y, zx |-> z0.zx, zy |-> z0.zy, iter |-> 0,
      colored |-> FALSE, candidate |-> FALSE]

\* the loop condition holds: the loop body runs once
EscStep ==
  /\ esc.pc = "loop"
  /\ LoopCond(esc.zx, esc.zy, esc.iter, esc.cap)
  /\ LET s == IF esc.type = "julia"
              THEN JuliaStep(esc.zx, esc.zy, DefaultCx, DefaultCy)
              ELSE MandelStep(esc.zx, esc.zy, esc.x, esc.y)
     IN esc' = [esc EXCEPT !.zx = s.zx, !.zy = s.zy, !.iter = esc.iter + 1]
  /\ UNCHANGED <<bl, fogst, pix, cfg, pc, cur, data, coloredAreas, starPositions,
                 starList, starsPlotted, attempts, processed>>

\* the loop condition fails: return iter; the callers classify the pixel
EscReturn ==
  /\ esc.pc = "loop"
  /\ ~LoopCond(esc.zx, esc.zy, esc.iter, esc.cap)
  /\ esc' = [esc EXCEPT !.pc = "ret",
                        !.colored = IsColored(esc.iter, esc.cap),
                        !.candidate = IsStarCandidate(esc.iter, esc.cap)]
  /\ UNCHANGED <<bl, fogst, pix, cfg, pc, cur, data, coloredAreas, starPositions,
                 starList, starsPlotted, attempts, processed>>

EscInit ==
  /\ \E type \in EscTypes, cap \in EscCaps, px \in EscPixels, py \in EscPixels,
        zoom \in EscZooms, off \in EscOffsets :
        esc = EscStart(type, cap, px, py, zoom, off)
  /\ pix = PixIdle /\ bl = BlendIdle
  /\ fogst = FogIdle /\ cfg = 0 /\ pc = "off" /\ cur = 0 /\ data = 0
  /\ coloredAreas = 0 /\ starPositions = 0 /\ starList = 0
  /\ starsPlotted = 0 /\ attempts = 0 /\ processed = 0

EscNext == EscStep \/ EscReturn

EscSpec == EscInit /\ [][EscNext]_vars

\* the function runs on one thread and nothing suspends it: a loop step or
\* the return that is possible is taken.  This is weak fairness of EscNext,
\* written out: a step of EscNext that changes the state is possible exactly
\* while esc.pc = "loop", and every step of EscSpec that changes the state is
\* a step of EscNext.
EscLiveSpec == EscSpec /\ ([]<>(esc.pc = "ret") \/ []<><<TRUE>>_vars)

(***************************************************************************)
(* render: the pipeline over the pixel grid                                *)
(***************************************************************************)
\* The canvas of the model (the program's is 800 x 800), the target number
\* of stars (the program's is 300) and the attempts allowed per star of the
\* target (the program's is 10).
GridW == 2
GridH == 2
maxStars == 2
AttemptsPerStar == 2

Pixels == 0..(GridW * GridH - 1)
PixelIndex(px, py) == py * GridW + px
PxOf(p) == p % GridW
PyOf(p) == p \div GridW

\* the configurations rendered
RenderTypes == {"mandelbrot", "julia"}
RenderCaps == {5}
RenderSeeds == {0, 1}
DefaultConfigs ==
  {DefaultConfig(type, cap, seed, keep) :
     type \in RenderTypes, cap \in RenderCaps, seed \in RenderSeeds, keep \in BOOLEAN}

\* configurations at the limits the prompts accept: saturation 100,
\* lightness 0 or 100, fogDensity 0.8, fogLayerCount 8
ExtremeSeeds == {6}
ExtremeConfigs ==
  {[DefaultConfig(type, cap, seed, FALSE) EXCEPT
      !.saturation = 100, !.lightness = light,
      !.fogDensity = 800, !.fogLayerCount = MaxFogLayers] :
     type \in RenderTypes, cap \in RenderCaps, seed \in ExtremeSeeds,
     light \in {0, 100}}

RenderConfigs == DefaultConfigs \cup ExtremeConfigs

\* the draws of Math.random() * 1.4 for the size of a star, in units of 1/CS
StarSizes == {250}

\* the passes of render in the order of its statements
PassOrder == <<"fill", "wash", "fractal", "stars", "fog", "softfog", "done">>
Passes == {PassOrder[i] : i \in 1..Len(PassOrder)}
PassNo(pass) == CHOOSE i \in 1..Len(PassOrder) : PassOrder[i] = pass

\* the order with star placement and coloring exchanged
NextPassStarsFirst(pass) ==
  CASE pass = "wash" -> "stars"
    [] pass = "stars" -> "fractal"
    [] pass = "fractal" -> "fog"
    [] OTHER -> PassOrder[PassNo(pass) + 1]

\* the statement of render that follows the pass
NextPass(pass) == PassOrder[PassNo(pass) + 1]

\* the pixel of the k-th pass through the loops of drawPerlinNoiseBackground,
\* applyFogLayer and render (px outer, py inner)
ColumnMajor(k) == PixelIndex(k \div GridH, k % GridH)
\* the pixel of the k-th pass through the loops of drawFractal (py outer)
RowMajor(k) == PixelIndex(k % GridW, k \div GridW)

\* the iteration count of the pixel (px, py) under the configuration c
PixelIter(c, px, py) ==
  IterAt(c.type,
         ScreenToPlane(px, GridW, c.zoom, c.offsetX),
         ScreenToPlane(py, GridH, c.zoom, c.offsetY),
         c.cx, c.cy, c.maxIter)

\* variation of drawPerlinNoiseBackground: five layers, clamped to [0,1]
RECURSIVE WashNoise(_, _, _, _)
WashNoise(seed, px, py, layer) ==
  IF layer = 5 THEN 0
  ELSE RoundDiv(noise2D(seed, px * 2000 * Pow2(layer), py * 2000 * Pow2(layer)) * 4,
                10 * Pow2(layer))
       + WashNoise(seed, px, py, layer + 1)

\* The body of drawPerlinNoiseBackground's loop: data[i] += fog
WashPixel(c, px, py, d) ==
  LET variation == Max(0, Min(CS, RoundDiv(WashNoise(c.seed, px, py, 0) + CS, 2)))
      fog == 15 * CS + variation * 20
  IN <<ToUint8Clamped(d[1] * CS + fog), ToUint8Clamped(d[2] * CS + fog),
       ToUint8Clamped(d[3] * CS + fog), d[4]>>

\* radius: glow ? size * glowSize * 1.2 : size * 2
StarRadius(size, glow, brighterStar) ==
  IF glow THEN RoundDiv(size * (IF brighterStar THEN 6 ELSE 4) * 12, 10)
  ELSE size * 2

\* size * glowSize, the radius of the gradient and of its arc
GlowRadius(size, brighterStar) == size * (IF brighterStar THEN 6 ELSE 4)

\* four times the squared distance of the centre of pixel q from (px, py)
CentreDist4(q, px, py) ==
  (2 * PxOf(q) + 1 - 2 * px) * (2 * PxOf(q) + 1 - 2 * px)
  + (2 * PyOf(q) + 1 - 2 * py) * (2 * PyOf(q) + 1 - 2 * py)

\* the centre of pixel q lies in the disk of radius r (units of 1/CS)
\* around the canvas point (px, py)
Covers(q, px, py, r) == CentreDist4(q, px, py) * CS * CS <= 4 * r * r

\* The drawing of an accepted star on the canvas: the radial gradient of
\* radius size * glowSize (white, alpha 0.5 at the centre to 0 at the rim)
\* when glow is set, then the disk of radius size (white, alpha 1.0 or
\* 0.85), each composited over the pixels whose centre it covers.
DrawStar(d, px, py, size, glow, brighterStar) ==
  LET gr == GlowRadius(size, brighterStar)
      glowAlpha(q) == RoundDiv(500 * (gr - ISqrt(CentreDist4(q, px, py) * CS * CS) \div 2), gr)
      over(e, a) == <<BlendStore(e[1], 255 * CS, a), BlendStore(e[2], 255 * CS, a),
                      BlendStore(e[3], 255 * CS, a), e[4]>>
      g == [q \in Pixels |->
              IF glow /\ gr > 0 /\ Covers(q, px, py, gr)
              THEN over(d[q], Max(0, glowAlpha(q))) ELSE d[q]]
  IN [q \in Pixels |->
        IF Covers(q, px, py, size)
        THEN over(g[q], IF brighterStar THEN CS ELSE 850) ELSE g[q]]

\* the bookkeeping of the passes: how often each pass was entered, how often
\* the loop body of a pass ran on a pixel, the pixels a pass wrote, the
\* pixel the star loop sampled last with the outcome of its test, the
\* buffer as it was when the current pass was entered, and the radii of the
\* arcs drawn for the stars accepted so far (the disk, and the glow or 0 when
\* no glow is drawn), in the order of the star list
NoSample == [px |-> -1, py |-> -1, accepted |-> FALSE]
NoProcessing ==
  [runs |-> [pass \in Passes |-> 0],
   visits |-> [pass \in Passes |-> [p \in Pixels |-> 0]],
   wrote |-> [pass \in Passes |-> {}],
   sample |-> NoSample,
   before |-> [p \in Pixels |-> <<0, 0, 0, 0>>],
   drawn |-> <<>>]

Visit(pr, pass, p, written) ==
  [pr EXCEPT !.visits[pass][p] = @ + 1,
             !.wrote[pass] = IF written THEN @ \cup {p} ELSE @]

Init ==
  /\ cfg \in RenderConfigs
  /\ pc = "fill"
  /\ cur = 0
  /\ data = [p \in Pixels |-> <<0, 0, 0, 0>>]
  /\ coloredAreas = <<>>
  /\ starPositions = <<>>
  /\ starList = <<>>
  /\ starsPlotted = 0
  /\ attempts = 0
  /\ processed = [NoProcessing EXCEPT !.runs["fill"] = 1]
  /\ esc = EscIdle /\ pix = PixIdle /\ fogst = FogIdle /\ bl = BlendIdle

\* the buffer after fillRect with rgb(0, 0, 10)
FillBuffer == [p \in Pixels |-> <<0, 0, 10, 255>>]

\* the entry of the pixel that follows p in the buffer
NeighbourEntry(d, p) == d[(p + 1) % (GridW * GridH)]

\* the entry of the buffer the loop body of a pass reads and writes for
\* the pixel p: data[i] with i = pixelIndex * 4
OwnEntry(d, p) == d[p]

\* The end of a pass and the entry of the next one: drawStarsInFractal
\* assigns its list to this.starPositions when it ends, drawFractal starts
\* with a mask of false entries, drawStarsInFractal with an empty list.
EnterNext ==
  /\ pc' = NextPass(pc)
  /\ cur' = 0
  /\ starPositions' = IF pc = "stars" THEN starList ELSE starPositions
  /\ coloredAreas' = IF NextPass(pc) = "fractal"
                     THEN [p \in Pixels |-> FALSE] ELSE coloredAreas
  /\ starList' = <<>>
  /\ starsPlotted' = 0
  /\ attempts' = 0
  /\ processed' = [processed EXCEPT
                     !.runs[NextPass(pc)] = @ + 1,
                     !.sample = NoSample,
                     !.before = IF pc = "fill" THEN FillBuffer ELSE data]

\* this.ctx.fillRect(0, 0, width, height) with rgb(0, 0, 10)
Fill ==
  /\ pc = "fill"
  /\ data' = FillBuffer
  /\ EnterNext
  /\ UNCHANGED <<bl, cfg, esc, pix, fogst>>

\* one pass through the loops of drawPerlinNoiseBackground
WashStep ==
  /\ pc = "wash" /\ cur < GridW * GridH
  /\ LET p == ColumnMajor(cur)
     IN /\ data' = [data EXCEPT ![p] = WashPixel(cfg, PxOf(p), PyOf(p), data[p])]
        /\ processed' = Visit(processed, "wash", p, TRUE)
  /\ cur' = cur + 1
  /\ UNCHANGED <<bl, cfg, pc, coloredAreas, starPositions, starList, starsPlotted,
                 attempts, esc, pix, fogst>>

WashDone ==
  /\ pc = "wash" /\ cur = GridW * GridH
  /\ EnterNext
  /\ UNCHANGED <<bl, cfg, data, esc, pix, fogst>>

\* the body of the loops of drawFractal for the pixel p
FractalAt(p) ==
  /\ LET res == ColorPixel(cfg, PixelIter(cfg, PxOf(p), PyOf(p)), PxOf(p), PyOf(p),
                           OwnEntry(data, p))
     IN /\ coloredAreas' = [coloredAreas EXCEPT ![p] = res.colored]
        /\ data' = [data EXCEPT ![p] = res.d]
        /\ processed' = Visit(processed, "fractal", p, res.wrote)
  /\ cur' = cur + 1
  /\ UNCHANGED <<bl, cfg, pc, starPositions, starList, starsPlotted, attempts,
                 esc, pix, fogst>>

\* one pass through the loops of drawFractal
FractalStep ==
  /\ pc = "fractal" /\ cur < GridW * GridH
  /\ FractalAt(RowMajor(cur))

FractalDone ==
  /\ pc = "fractal" /\ cur = GridW * GridH
  /\ EnterNext
  /\ UNCHANGED <<bl, cfg, data, esc, pix, fogst>>

\* the iteration count the star loop computes for its sample, ignoring the
\* render type
StarIterMandelbrotOnly(c, px, py) ==
  PixelIter([c EXCEPT !.type = "mandelbrot"], px, py)

\* the iteration count the star loop computes for the sampled pixel
StarIter(c, px, py) == PixelIter(c, px, py)

\* the loop condition without the target number of stars
StarLoopCondAttemptsOnly == attempts < maxStars * AttemptsPerStar

\* while (starsPlotted < maxStars && attempts < maxStars * 10)
StarLoopCond == starsPlotted < maxStars /\ attempts < maxStars * AttemptsPerStar

\* one pass through the loop of drawStarsInFractal on a random pixel
StarAttempt ==
  /\ pc = "stars" /\ StarLoopCond
  /\ \E px \in 0..(GridW - 1), py \in 0..(GridH - 1) :
       IF IsStarCandidate(StarIter(cfg, px, py), cfg.maxIter)
       THEN \E size \in StarSizes, brighterStar \in BOOLEAN, glow \in BOOLEAN :
              /\ starList' = Append(starList,
                               [x |-> px, y |-> py,
                                radius |-> StarRadius(size, glow, brighterStar)])
              /\ data' = DrawStar(data, px, py, size, glow, brighterStar)
              /\ starsPlotted' = starsPlotted + 1
              /\ processed' = [processed EXCEPT
                                 !.sample = [px |-> px, py |-> py, accepted |-> TRUE],
                                 !.drawn = Append(@,
                                    [size |-> size,
                                     glow |-> IF glow THEN GlowRadius(size, brighterStar)
                                              ELSE 0])]
       ELSE /\ UNCHANGED <<starList, data, starsPlotted>>
            /\ processed' = [processed EXCEPT
                               !.sample = [px |-> px, py |-> py, accepted |-> FALSE]]
  /\ attempts' = attempts + 1
  /\ UNCHANGED <<bl, cfg, pc, cur, coloredAreas, starPositions, esc, pix, fogst>>

StarsDone ==
  /\ pc = "stars" /\ ~StarLoopCond
  /\ EnterNext
  /\ UNCHANGED <<bl, cfg, data, esc, pix, fogst>>

\* the body of the loops of applyFogLayer for the pixel p
FogAt(p) ==
  /\ LET skipFog == SkipFog(starPositions, cfg.keepBlackAreasClear,
                            coloredAreas[p], PxOf(p), PyOf(p))
     IN /\ data' = IF skipFog THEN data
                   ELSE [data EXCEPT ![p] = FogPixel(cfg, PxOf(p), PyOf(p),
                                                    OwnEntry(data, p))]
        /\ processed' = Visit(processed, "fog", p, ~skipFog)
  /\ cur' = cur + 1
  /\ UNCHANGED <<bl, cfg, pc, coloredAreas, starPositions, starList, starsPlotted,
                 attempts, esc, pix, fogst>>

\* one pass through the loops of applyFogLayer
FogStep ==
  /\ pc = "fog" /\ cur < GridW * GridH
  /\ FogAt(ColumnMajor(cur))

FogDone ==
  /\ pc = "fog" /\ cur = GridW * GridH
  /\ EnterNext
  /\ UNCHANGED <<bl, cfg, data, esc, pix, fogst>>

\* one pass through the final loops of render
SoftFogStep ==
  /\ pc = "softfog" /\ cur < GridW * GridH
  /\ LET p == ColumnMajor(cur)
         skipFog == SkipFog(starPositions, cfg.keepBlackAreasClear,
                            coloredAreas[p], PxOf(p), PyOf(p))
     IN /\ data' = IF skipFog THEN data
                   ELSE [data EXCEPT ![p] = SoftFogPixel(cfg, PxOf(p), PyOf(p), data[p])]
        /\ processed' = Visit(processed, "softfog", p, ~skipFog)
  /\ cur' = cur + 1
  /\ UNCHANGED <<bl, cfg, pc, coloredAreas, starPositions, starList, starsPlotted,
                 attempts, esc, pix, fogst>>

\* putImageData and the write of the image: render is done
SoftFogDone ==
  /\ pc = "softfog" /\ cur = GridW * GridH
  /\ EnterNext
  /\ UNCHANGED <<bl, cfg, data, esc, pix, fogst>>

Next ==
  \/ Fill
  \/ WashStep \/ WashDone
  \/ FractalStep \/ FractalDone
  \/ StarAttempt \/ StarsDone
  \/ FogStep \/ FogDone
  \/ SoftFogStep \/ SoftFogDone

Spec == Init /\ [][Next]_vars

\* render is a synchronous method: once called it runs its statements to the
\* end without yielding. This is weak fairness of Next, WF_vars(Next), written
\* out as []<>~ENABLED <<Next>>_vars \/ []<><<Next>>_vars with each part in the
\* form it equals on the behaviours of Spec: a step of render is possible
\* exactly until the last pass is done, and every step that changes the state
\* is a step of Next.
LiveSpec == Spec /\ ([]<>(pc = "done") \/ []<><<TRUE>>_vars)

(***************************************************************************)
(* render with the pixels of the coloring pass and of the fog overlay      *)
(* processed in any order                                                  *)
(***************************************************************************)
OrderConfigs == {c \in DefaultConfigs : c.seed = 1 /\ ~c.keepBlackAreasClear}

OrderInit == Init /\ cfg \in OrderConfigs

\* the pixels the loop body of the pass has not run on yet
Unprocessed(pass) == {p \in Pixels : processed.visits[pass][p] = 0}

\* the body of drawFractal's loops on any pixel still to be processed
FractalAny ==
  /\ pc = "fractal"
  /\ \E p \in Unprocessed("fractal") : FractalAt(p)

\* the body of applyFogLayer's loops on any pixel still to be processed
FogAny ==
  /\ pc = "fog"
  /\ \E p \in Unprocessed("fog") : FogAt(p)

OrderNext ==
  \/ Fill
  \/ WashStep \/ WashDone
  \/ FractalAny \/ FractalDone
  \/ StarAttempt \/ StarsDone
  \/ FogAny \/ FogDone
  \/ SoftFogStep \/ SoftFogDone

OrderSpec == OrderInit /\ [][OrderNext]_vars

(***************************************************************************)
(* Claims about the pipeline (checked under Spec)                          *)
(***************************************************************************)
PixelPasses == {"wash", "fractal", "fog", "softfog"}
Before(a, b) == PassNo(a) < PassNo(b)

\* the pixel lies in the exclusion disk of a star of the list
InSomeStarDisk(stars, p) ==
  \E k \in 1..Len(stars) :
     ((PxOf(p) - stars[k].x) * (PxOf(p) - stars[k].x)
      + (PyOf(p) - stars[k].y) * (PyOf(p) - stars[k].y)) * CS * CS
        <= stars[k].radius * stars[k].radius

\* in every state: the passes entered are those up to the current one, each
\* entered once; an earlier pass has run its loop body once on every pixel,
\* a later one on none, the current one on the first cur pixels of its
\* order; the mask is complete and the star list is assigned from the fog
\* overlay on, and the star list is unassigned before
C1_Inv ==
  /\ \A pass \in Passes :
        processed.runs[pass] = (IF PassNo(pass) <= PassNo(pc) THEN 1 ELSE 0)
  /\ \A pass \in PixelPasses, p \in Pixels :
        /\ Before(pass, pc) => processed.visits[pass][p] = 1
        /\ Before(pc, pass) => (processed.visits[pass][p] = 0
                                /\ p \notin processed.wrote[pass])
        /\ pass = pc => processed.visits[pass][p] <= 1
  /\ pc \in PixelPasses =>
        Cardinality({p \in Pixels : processed.visits[pc][p] = 1}) = cur
  /\ Before("stars", pc) => DOMAIN coloredAreas = Pixels
  /\ ~Before("stars", pc) => starPositions = <<>>

\* in every step: the pass changes only to the next one of the fixed order;
\* the mask and the star list do not change from the fog overlay on; the
\* mask changes only in (or on entry of) the coloring pass
C1_Step ==
  /\ pc' # pc => PassNo(pc') = PassNo(pc) + 1
  /\ Before("stars", pc) => (coloredAreas' = coloredAreas /\ starPositions' = starPositions)
  /\ coloredAreas' # coloredAreas => pc' = "fractal"
  /\ starPositions' # starPositions => (pc = "stars" /\ pc' = "fog")

\* C1: render executes the passes in the order fill, noise wash, coloring,
\* star placement, fog overlay, soft fog, each exactly once, each over the
\* whole grid before the next starts; the mask is fully written and the star
\* list fully assigned before the fog overlay reads them.
C1_PassOrder == []C1_Inv /\ [][C1_Step]_vars

\* a render is done in which stars were placed and both fog passes wrote
C1_Witness ==
  /\ pc = "done" /\ Len(starPositions) = maxStars
  /\ processed.wrote["fog"] # {} /\ processed.wrote["softfog"] # {}
  /\ processed.wrote["fractal"] # {}

\* a step of a fog pass leaves the pixels in the star disks as they are
C2_Step ==
  pc \in {"fog", "softfog"} =>
     \A p \in Pixels :
        InSomeStarDisk(starPositions, p) =>
           (data'[p] = data[p] /\ p \notin processed'.wrote[pc])

\* C2: a pixel within the radius of a recorded star keeps its R, G, B through
\* the fog overlay pass and through the final soft-fog pass, whatever
\* keepBlackAreasClear is.
C2_StarExclusion == [][C2_Step]_vars

\* with the flag off: a pixel in a star's disk was left alone by both fog
\* passes, which wrote another pixel
C2_Witness ==
  /\ pc = "done" /\ ~cfg.keepBlackAreasClear
  /\ \E p, q \in Pixels :
        /\ InSomeStarDisk(starPositions, p)
        /\ \A k \in 1..Len(starPositions) :
              PixelIndex(starPositions[k].x, starPositions[k].y) # p
        /\ p \notin processed.wrote["fog"] /\ p \notin processed.wrote["softfog"]
        /\ ~InSomeStarDisk(starPositions, q)
        /\ q \in processed.wrote["fog"] /\ q \in processed.wrote["softfog"]

\* the pixels outside every star's exclusion disk
OutsideDisks == {p \in Pixels : ~InSomeStarDisk(starPositions, p)}

\* with the flag set, a step of a fog pass leaves the pixels with a false
\* mask entry as they are
C3_Step ==
  (pc \in {"fog", "softfog"} /\ cfg.keepBlackAreasClear) =>
     \A p \in Pixels :
        ~coloredAreas[p] =>
           (data'[p] = data[p] /\ p \notin processed'.wrote[pc])

\* C3: with keepBlackAreasClear set, a pixel whose mask entry is false keeps
\* its R, G, B through both fog passes; with the flag not set the mask
\* excludes no pixel: every pixel outside all star disks is processed by
\* both passes.
C3_BlackAreas ==
  /\ [][C3_Step]_vars
  /\ [](~cfg.keepBlackAreasClear =>
          /\ Before("fog", pc) => processed.wrote["fog"] = OutsideDisks
          /\ Before("softfog", pc) => processed.wrote["softfog"] = OutsideDisks)

\* with the flag set, an uncoloured pixel outside every star disk was left
\* alone while a coloured one was fogged
C3_Witness ==
  /\ pc = "done" /\ cfg.keepBlackAreasClear
  /\ \E p, q \in OutsideDisks :
        /\ ~coloredAreas[p]
        /\ p \notin processed.wrote["fog"] /\ p \notin processed.wrote["softfog"]
        /\ coloredAreas[q]
        /\ q \in processed.wrote["fog"] /\ q \in processed.wrote["softfog"]

\* the star records of the running star pass, or of the finished one
CurrentStars == IF pc = "stars" THEN starList ELSE starPositions

\* C8: a sampled pixel is accepted as a star iff its iteration count, under
\* the recurrence of the render type and the mapping of the coloring pass,
\* equals the cap; so every star record lies on a pixel whose mask entry is
\* false and which the coloring pass did not write.
C8_StarsInSet ==
  /\ (pc = "stars" /\ processed.sample # NoSample) =>
        (processed.sample.accepted <=>
           PixelIter(cfg, processed.sample.px, processed.sample.py) = cfg.maxIter)
  /\ \A k \in 1..Len(CurrentStars) :
        LET p == PixelIndex(CurrentStars[k].x, CurrentStars[k].y)
        IN /\ PixelIter(cfg, CurrentStars[k].x, CurrentStars[k].y) = cfg.maxIter
           /\ ~coloredAreas[p]
           /\ p \notin processed.wrote["fractal"]

\* a Julia render recorded a star after it rejected a sample, and coloured
\* another pixel
C8_Witness ==
  /\ pc = "stars" /\ cfg.type = "julia"
  /\ Len(starList) = 1 /\ attempts > 1
  /\ processed.sample.accepted
  /\ processed.wrote["fractal"] # {}

\* a step of the star pass: a pass through the loop counts one attempt and
\* appends at most one record; the step that leaves the pass assigns the list
C9_Step ==
  pc = "stars" =>
     /\ pc' = "stars" =>
           /\ attempts' = attempts + 1
           /\ starsPlotted < maxStars
           /\ \/ starList' = starList /\ starsPlotted' = starsPlotted
              \/ /\ Len(starList') = Len(starList) + 1
                 /\ SubSeq(starList', 1, Len(starList)) = starList
                 /\ starsPlotted' = starsPlotted + 1
     /\ pc' # "stars" =>
           /\ starPositions' = starList
           /\ starsPlotted = maxStars \/ attempts = maxStars * AttemptsPerStar

\* C9: the star loop makes at most maxStars * AttemptsPerStar attempts (3000
\* in the program) and records at most maxStars stars (300), one per accepted
\* attempt; each pass through the loop counts one attempt, and the loop ends;
\* it ends as soon as maxStars stars are recorded, and when it ends with
\* fewer, all the attempts were made; the list of the render is the list of
\* this pass.
C9_StarLoop ==
  /\ [](pc = "stars" =>
          /\ attempts <= maxStars * AttemptsPerStar
          /\ starsPlotted <= maxStars /\ starsPlotted <= attempts
          /\ Len(starList) = starsPlotted
          /\ starPositions = <<>>
          /\ (~StarLoopCond /\ starsPlotted < maxStars) =>
                attempts = maxStars * AttemptsPerStar)
  /\ [](Len(starPositions) <= maxStars)
  /\ [][C9_Step]_vars
  /\ (pc = "stars") ~> (pc = "fog")

\* the loop has ended short of the target after all its attempts
C9_Witness ==
  /\ pc = "stars" /\ ~StarLoopCond
  /\ starsPlotted = 1 /\ starsPlotted < maxStars
  /\ attempts = maxStars * AttemptsPerStar

(***************************************************************************)
(* Claims about the escape-time functions (checked under EscSpec)          *)
(***************************************************************************)
\* x * x + y * y >= 4 for the input coordinate
NormAtLeast4(x, y) ==
  /\ ~IsNaN(x) /\ ~IsNaN(y)
  /\ ~Bounded(x, y)

\* C5 as stated: for every input coordinate with x^2 + y^2 >= 4 and every
\* cap >= 1, mandelbrot as well as julia return the iteration count 0.
C5_Original ==
  (esc.pc = "ret" /\ NormAtLeast4(esc.x, esc.y)) => esc.iter = 0

\* C5, amended: for every input coordinate with x^2 + y^2 >= 4 and every
\* cap >= 1, julia returns 0 (its loop tests the input coordinate first);
\* mandelbrot starts from z0 = (0,0), so its first test passes and it returns
\* a count of at least 1 (and at most cap).
C5_EscapedAtEntry ==
  (esc.pc = "ret" /\ NormAtLeast4(esc.x, esc.y)) =>
     /\ esc.type = "julia" => esc.iter = 0
     /\ esc.type = "mandelbrot" => (esc.iter >= 1 /\ esc.iter <= esc.cap)

\* a Mandelbrot run on a finite coordinate outside the radius-2 disk returned
C5_Witness ==
  /\ esc.pc = "ret" /\ esc.type = "mandelbrot"
  /\ IsFinite(esc.x) /\ IsFinite(esc.y) /\ NormAtLeast4(esc.x, esc.y)
  /\ esc.iter = 1 /\ esc.cap > 1

\* C6 as stated: with zoom = 0 the coordinates are infinite or NaN, and
\* mandelbrot as well as julia terminate with iteration count 0, so the pixel
\* is never a star candidate.
C6_Original ==
  (esc.pc = "ret" /\ esc.zoom = 0) =>
     /\ ~IsFinite(esc.x) /\ ~IsFinite(esc.y)
     /\ esc.iter = 0
     /\ ~esc.candidate

\* C6, amended: with zoom = 0 the coordinates are infinite or NaN and the
\* escape-time computation ends without a fault; julia returns 0, mandelbrot
\* returns 1 (its first test is on z0 = (0,0) and the first step makes z
\* NaN); the pixel is a star candidate only for mandelbrot with cap = 1.
C6_NonFiniteCoordinates ==
  (esc.zoom = 0) =>
     /\ ~IsFinite(esc.x) /\ ~IsFinite(esc.y)
     /\ esc.pc = "loop" =>
          (LoopCond(esc.zx, esc.zy, esc.iter, esc.cap) =>
             (esc.type = "mandelbrot" /\ esc.iter = 0))
     /\ esc.pc = "ret" =>
          /\ esc.iter = (IF esc.type = "julia" THEN 0 ELSE 1)
          /\ esc.candidate <=> (esc.type = "mandelbrot" /\ esc.cap = 1)
          /\ esc.candidate => ~esc.colored

\* a Mandelbrot run on a NaN coordinate returned 1 below the cap
C6_Witness ==
  /\ esc.pc = "ret" /\ esc.zoom = 0 /\ esc.type = "mandelbrot"
  /\ IsNaN(esc.x) /\ esc.iter = 1 /\ esc.cap > 1 /\ IsNaN(esc.zx)

\* the end-to-end Mandelbrot scenario at the centre pixel
IsCentreScenario ==
  /\ esc.type = "mandelbrot" /\ esc.cap = 100 /\ esc.zoom = 300
  /\ esc.px = 400 /\ esc.py = 400
  /\ esc.offsetX = Fin(-7500) /\ esc.offsetY = Fin(0)

\* C10 as stated: the centre pixel maps to (-0.75, 0) and its
\* ColoredAreaMask entry is true.
C10_Original ==
  (IsCentreScenario /\ esc.pc = "ret") =>
     (esc.x = Fin(-7500) /\ esc.y = Fin(0) /\ esc.colored)

\* C10, amended: the centre pixel maps to (-0.75, 0); the point does not
\* escape within the 100 iterations, so its count equals the cap and its
\* ColoredAreaMask entry is false (the mask marks escaped, coloured pixels).
C10_CentrePixel ==
  IsCentreScenario =>
     /\ esc.x = Fin(-7500) /\ esc.y = Fin(0)
     /\ esc.pc = "ret" => (esc.iter = esc.cap /\ ~esc.colored /\ esc.candidate)

\* the run on the centre pixel returned
C10_Witness == IsCentreScenario /\ esc.pc = "ret" /\ esc.iter = 100

(***************************************************************************)
(* Claims about the body of the coloring pass (checked under PixSpec)      *)
(***************************************************************************)
\* C4: in the coloring pass the mask entry of a pixel is set to
\* (iter < cap and fade > 0.01); a pixel with fade <= 0.01 is skipped and its
\* buffer entry is neither written nor changed; so the pass changes a
\* pixel's RGB only if it sets the pixel's mask entry to true.
C4_MaskAndSkip ==
  (pix.pc = "colored") =>
     /\ pix.colored = (pix.iter < pix.c.maxIter /\ FadeCmp(pix.iter, pix.c.maxIter) > 0)
     /\ FadeCmp(pix.iter, pix.c.maxIter) <= 0 => (~pix.wrote /\ pix.after = pix.before)
     /\ (pix.wrote \/ pix.after # pix.before) => pix.colored

\* a pixel that escaped before the cap with a fade below 0.01 was skipped,
\* and (in another run) an escaped pixel was coloured
C4_Witness ==
  /\ pix.pc = "colored"
  /\ pix.iter < pix.c.maxIter /\ pix.iter > 0
  /\ FadeCmp(pix.iter, pix.c.maxIter) < 0
  /\ ~pix.colored /\ ~pix.wrote

(***************************************************************************)
(* Claims about the layered noise sum (checked under FogSpec)              *)
(***************************************************************************)
\* C7: for every fogLayerCount in 1..8 and every combination of per-layer
\* noise samples in [-1,1], fogIntensity = (noiseSum+1)/2 lies in [0,1], so
\* the blend alpha fogIntensity * fogDensity lies in [0, fogDensity].
C7_FogIntensityInUnitRange ==
  (fogst.pc = "done") =>
     /\ 0 <= fogst.fogIntensity /\ fogst.fogIntensity <= FogScale
     /\ 0 <= fogst.alpha /\ fogst.alpha <= fogst.fogDensity

WithinRounding(a, b) ==
  LET tol == <<Pow2(56 - 45), 0, 0>>
  IN IF BigLess(a, b) THEN ~BigLess(tol, BigSub(b, a))
     ELSE ~BigLess(tol, BigSub(a, b))

C12_ChannelsInRange ==
  \A p \in Pixels : \A i \in 1..4 : data[p][i] \in 0..255

\* the colour hslToRgb gave the coloring pass for the pixel
ColorFed(p) ==
  FractalColor(cfg, PixelIter(cfg, PxOf(p), PyOf(p)), FogMod(cfg.seed, PxOf(p), PyOf(p)))

\* a render is done in which the coloring pass blended a colour with a
\* channel above 255, computed from a lightness above 100, and a fog pass
\* brought a channel to the upper limit
C12_Witness ==
  /\ pc = "done" /\ cfg.lightness = 100
  /\ \E p \in processed.wrote["fractal"] : \E i \in 1..3 : ColorFed(p)[i] > 255
  /\ \E p \in processed.wrote["fog"] : \E i \in 1..3 : data[p][i] = 255

(***************************************************************************)
(* Claims about the order of the pixels (checked under OrderSpec)          *)
(***************************************************************************)
\* what drawFractal's loop body makes of the pixel p as the pass found it
ColoredFrom(p) ==
  ColorPixel(cfg, PixelIter(cfg, PxOf(p), PyOf(p)), PxOf(p), PyOf(p),
             processed.before[p])

\* what applyFogLayer's loop body makes of the pixel p as the pass found it
FoggedFrom(p) ==
  IF SkipFog(starPositions, cfg.keepBlackAreasClear, coloredAreas[p], PxOf(p), PyOf(p))
  THEN processed.before[p]
  ELSE FogPixel(cfg, PxOf(p), PyOf(p), processed.before[p])

\* a step of the two passes on a pixel changes the buffer and the mask at
\* that pixel only
C13_Step ==
  (pc \in {"fractal", "fog"} /\ pc' = pc) =>
     \E p \in Unprocessed(pc) :
        /\ processed'.visits[pc][p] = 1
        /\ \A q \in Pixels \ {p} :
              /\ data'[q] = data[q]
              /\ coloredAreas'[q] = coloredAreas[q]
              /\ processed'.visits[pc][q] = processed.visits[pc][q]

\* C13: in the coloring pass and in the fog overlay pass the loop body reads
\* and writes only the buffer entry and the mask entry of its own pixel, so
\* in whatever order the pixels of a pass are processed, a processed pixel
\* holds what the loop body makes of that pixel as the pass found it, and the
\* buffer and the mask after the pass are the same.
C13_OrderIndependent ==
  /\ [](pc = "fractal" =>
          \A p \in Pixels :
             IF p \in Unprocessed("fractal")
             THEN data[p] = processed.before[p] /\ ~coloredAreas[p]
             ELSE data[p] = ColoredFrom(p).d /\ coloredAreas[p] = ColoredFrom(p).colored)
  /\ [](pc = "fog" =>
          \A p \in Pixels :
             data[p] = (IF p \in Unprocessed("fog") THEN processed.before[p]
                        ELSE FoggedFrom(p)))
  /\ [][C13_Step]_vars

\* the fog overlay has processed the last pixel of the grid first and has
\* written it, while the first pixel, which it will write, is still to come
C13_Witness ==
  /\ pc = "fog" /\ cur = 1
  /\ Unprocessed("fog") = Pixels \ {GridW * GridH - 1}
  /\ (GridW * GridH - 1) \in processed.wrote["fog"]
  /\ data[GridW * GridH - 1] # processed.before[GridW * GridH - 1]
  /\ FoggedFrom(0) # processed.before[0]
  /\ processed.wrote["fractal"] # {}

(***************************************************************************)
(* C14                                                                     *)
(***************************************************************************)

\* a loop step of mandelbrot or julia: the escape test and the cap test passed
\* on the values before the step, and the step counts itself once
C14_Step ==
  (esc'.iter # esc.iter) =>
     /\ Bounded(esc.zx, esc.zy)
     /\ esc.iter < esc.cap
     /\ esc'.iter = esc.iter + 1
     /\ esc'.pc = "loop"

\* a return leaves the count and the iterate where the loop left them
C14_Return ==
  (esc.pc = "loop" /\ esc'.pc = "ret") =>
     /\ esc'.iter = esc.iter /\ esc'.zx = esc.zx /\ esc'.zy = esc.zy
     /\ ~(Bounded(esc.zx, esc.zy) /\ esc.iter < esc.cap)

\* C14: for every input coordinate and every cap >= 1, mandelbrot and julia
\* terminate after at most cap loop steps and return an integer iter with
\* 0 <= iter <= cap; a returned iter < cap means the escape test
\* zx^2 + zy^2 < 4 failed on the iterate after exactly iter steps, and every
\* loop step (so each of the cap steps behind iter = cap) was taken after the
\* test had passed.
C14_Terminates ==
  /\ <>(esc.pc = "ret")
  /\ [](esc.iter \in 0..esc.cap)
  /\ []((esc.pc = "ret" /\ esc.iter < esc.cap) => ~Bounded(esc.zx, esc.zy))
  /\ [][C14_Step /\ C14_Return]_vars

\* a run that escaped after some but not all steps has returned
C14_Witness ==
  /\ esc.pc = "ret" /\ esc.cap = 100
  /\ esc.iter > 1 /\ esc.iter < esc.cap
  /\ ~Bounded(esc.zx, esc.zy)


(***************************************************************************)
(* C15                                                                     *)
(***************************************************************************)

\* the pixels whose centre the drawing of the k-th star of this.starPositions
\* covers: the arc of the glow when glow is set, and the arc of the disk
StarDrawing(k) ==
  LET s == starPositions[k]
      g == processed.drawn[k]
  IN {q \in Pixels :
        \/ g.glow > 0 /\ Covers(q, s.x, s.y, g.glow)
        \/ Covers(q, s.x, s.y, g.size)}

\* C15 as stated: the recorded exclusion radius of every accepted star is at
\* least the radius of its glow gradient and of its disk, and every pixel
\* whose centre a star's drawing covers is skipped by both fog passes.
\* The radii compare as stated, but the fog passes measure the distance
\* between pixel indices while the drawing is centred on the corner of the
\* star's pixel, so a pixel the glow covers can be blended with fog.
C15_DrawnPixelsExcluded ==
  \A k \in 1..Len(starPositions) :
     LET s == starPositions[k]
         g == processed.drawn[k]
     IN /\ g.glow <= s.radius
        /\ g.size <= s.radius
        /\ \A q \in StarDrawing(k) :
              q \notin (processed.wrote["fog"] \cup processed.wrote["softfog"])


====
